---------------------------- MODULE Spec2Model ----------------------------
(***************************************************************************)
(* Model of the two Terraform-registry statistics scripts:                 *)
(*   - All-providers-download-since-beginning.py  (the full crawl)         *)
(*   - daily-downloads-this-yr.py                 (the daily monitor)      *)
(* The two programs share no state.  SpecCrawl runs the full crawl,        *)
(* SpecDaily runs the daily monitor; each leaves the other's variables     *)
(* untouched.                                                              *)
(***************************************************************************)
EXTENDS Integers, Sequences, FiniteSets, TLC

VARIABLES
    \* ---- full crawl ----
    c_pc,          \* position of main(): "get_all_providers", "generate_report",
                   \* "save_report", "done", "exit_error"
    page,          \* get_all_providers: local `page`
    providers,     \* get_all_providers: local `providers`
    requests,      \* page numbers of the GETs issued so far, in order
    responses,     \* what the registry answered to each of them, in order
    c_delays,      \* number of time.sleep(0.5) calls that have elapsed
    gap,           \* get_all_providers: "running", "returned" or "raised"
    report_data,   \* generate_report: local `report_data`
    gr,            \* generate_report: "pending", "returned" or "raised"
    save,          \* save_report: "pending", "returned" or "raised"
    files,         \* what save_report has written: name -> content
    csv_attempted, \* whether save_report entered its CSV block
    c_log,         \* the logging.error records of the full crawl, in order
    \* ---- daily monitor ----
    d_pc,          \* position of main(): "run_daily_report" (about to call it),
                   \* "fetch", "fetch_except", "record", "sleep", "save_report"
                   \* (inside a cycle), "schedule", "run_pending", "idle_sleep",
                   \* "stopped", "exit_error"
    now,           \* wall clock, in polling periods of 60 s
    jobs,          \* schedule's job list (next_run, last_run of each job)
    cycle,         \* "none", "initial" or "scheduled": the cycle that is running
    starts,        \* one record per cycle started: when, and for which trigger
    idx,           \* generate_report: index of the mapping entry in progress
    response,      \* get_provider_downloads: the answer to the latest GET
    data,          \* generate_report: local `data` of the entry in progress
    fetch_log,     \* the record the latest get_provider_downloads call logged
    report,        \* generate_report: local `report`
    returned,      \* <<report>> once generate_report has returned in this cycle
    fetches,       \* this cycle's calls of get_provider_downloads, in order
    results,       \* what each of them returned, in order
    d_delays,      \* this cycle's time.sleep(1) calls that have elapsed
    saved,         \* number of report files written
    interrupts,    \* the KeyboardInterrupts delivered so far: where each arrived
    d_log          \* the records main() and save_report logged, in order

crawlVars == <<c_pc, page, providers, requests, responses, c_delays, gap,
               report_data, gr, save, files, csv_attempted, c_log>>
dailyVars == <<d_pc, now, jobs, cycle, starts, idx, response, data, fetch_log,
               report, returned, fetches, results, d_delays, saved, interrupts,
               d_log>>
vars == <<crawlVars, dailyVars>>

---------------------------------------------------------------------------
(* Bounds of the model *)

\* pages the registry is asked for before the model stops following the crawl
MaxPages == 3
\* items of one page of the list endpoint
MaxItems == 2
\* polling periods from one 00:00 to the next
DayLen == 2
\* the clock value after which the model stops following the monitor
MaxTime == 5
\* polling periods one fetch+report cycle may take
MaxCycleTicks == 1

---------------------------------------------------------------------------
(* JSON / Python values.  Every value carries its type tag. *)

Null == [t |-> "null"]
Num(n) == [t |-> "num", v |-> n]
Str(s) == [t |-> "str", v |-> s]
List(s) == [t |-> "list", v |-> s]
Obj(f) == [t |-> "obj", v |-> f]

\* Python truthiness: `if x`, `not x`
Truthy(x) ==
    CASE x.t = "null" -> FALSE
      [] x.t = "num" -> x.v # 0
      [] x.t = "str" -> x.v # ""
      [] x.t = "list" -> Len(x.v) > 0
      [] x.t = "obj" -> DOMAIN x.v # {}

\* outcome of evaluating an expression: a value, or an exception class
Ok(x) == [ok |-> TRUE, val |-> x]
Raise(e) == [ok |-> FALSE, exc |-> e]

\* x[k] with a string key k: only a dict can be indexed by a string
Subscript(x, k) ==
    IF x.t = "obj"
    THEN IF k \in DOMAIN x.v THEN Ok(x.v[k]) ELSE Raise("KeyError")
    ELSE Raise("TypeError")

\* x.get(k, default): only a dict has .get
DictGet(x, k, default) ==
    IF x.t = "obj"
    THEN Ok(IF k \in DOMAIN x.v THEN x.v[k] ELSE default)
    ELSE Raise("AttributeError")

\* str(x) inside an f-string
Fmt(x) ==
    CASE x.t = "null" -> "None"
      [] x.t = "str" -> x.v
      [] x.t = "num" -> ToString(x.v)

\* the exception classes involved and their base classes
BaseOf(c) ==
    CASE c = "RequestException" -> "OSError"
      [] c = "OSError" -> "Exception"
      [] c = "KeyError" -> "Exception"
      [] c = "TypeError" -> "Exception"
      [] c = "ValueError" -> "Exception"
      [] c = "AttributeError" -> "Exception"
      [] c = "Exception" -> "BaseException"
      [] c = "KeyboardInterrupt" -> "BaseException"
      [] OTHER -> "BaseException"

RECURSIVE IsSubclass(_, _)
IsSubclass(c, h) ==
    IF c = h THEN TRUE
    ELSE IF c = "BaseException" THEN FALSE
    ELSE IsSubclass(BaseOf(c), h)

\* `except h:` catches an exception of class c
Catches(h, c) == IsSubclass(c, h)

---------------------------------------------------------------------------
(* Full crawl: the registry's possible answers *)

Attrs(d) == Obj("namespace" :> Str("hashicorp") @@ "name" :> Str("aws")
                @@ "downloads" :> d)
AttrsNoDownloads == Obj("namespace" :> Str("hashicorp") @@ "name" :> Str("aws"))

ItemOk == Obj("id" :> Str("1") @@ "attributes" :> Attrs(Num(5)))
ItemNullDownloads == Obj("id" :> Str("2") @@ "attributes" :> Attrs(Null))
ItemNoDownloads == Obj("id" :> Str("3") @@ "attributes" :> AttrsNoDownloads)
ItemNoAttributes == Obj("id" :> Str("4"))
ItemNoId == Obj("attributes" :> Attrs(Num(7)))
ItemAttrsNotObject == Obj("id" :> Str("6") @@ "attributes" :> Str("x"))
ItemNotObject == Str("oops")

Items == {ItemOk, ItemNullDownloads, ItemNoDownloads, ItemNoAttributes,
          ItemNoId, ItemAttrsNotObject, ItemNotObject}

\* the items that fill the longer pages
CoreItems == {ItemOk, ItemNoAttributes}

\* the `data` arrays of a page: every item alone, and every array of up to
\* MaxItems core items (the empty array among them)
ItemLists == {<<a>> : a \in Items} \cup UNION {[1..n -> CoreItems] : n \in 0..MaxItems}

\* JSON bodies of the list endpoint: a `data` array, and the malformed shapes
Bodies ==
    {Obj("data" :> List(s)) : s \in ItemLists}
    \cup {List(<<>>), Obj(<<>>), Obj("data" :> Null), Obj("data" :> Num(1))}

\* "error": requests.get or raise_for_status raised a RequestException.
\* (A 2xx answer whose body is not JSON is not among the answers modelled.)
Responses == {[status |-> "error"]} \cup {[status |-> "ok", body |-> b] : b \in Bodies}


---------------------------------------------------------------------------
(* Full crawl: get_all_providers *)

\* PageOutcome with the `break` on an empty page forgotten
PageOutcomeNoBreak(resp) ==
    IF resp.status = "error"
    THEN [kind |-> "raise", exc |-> "RequestException"]
    ELSE LET d == DictGet(resp.body, "data", Null)
         IN  IF ~d.ok THEN [kind |-> "raise", exc |-> d.exc]
             ELSE IF d.val.t = "list" THEN [kind |-> "extend", items |-> d.val.v]
             ELSE IF ~Truthy(d.val) THEN [kind |-> "break"]
             ELSE [kind |-> "raise", exc |-> "TypeError"]

\* PageOutcome with a failed request skipped instead of ending the loop
PageOutcomeSkipFailed(resp) ==
    IF resp.status = "error"
    THEN [kind |-> "extend", items |-> <<>>]
    ELSE LET d == DictGet(resp.body, "data", Null)
         IN  IF ~d.ok THEN [kind |-> "raise", exc |-> d.exc]
             ELSE IF ~Truthy(d.val) THEN [kind |-> "break"]
             ELSE IF d.val.t = "list" THEN [kind |-> "extend", items |-> d.val.v]
             ELSE [kind |-> "raise", exc |-> "TypeError"]

\* one pass through the try block of the while loop, for one response:
\* the exception it raises, or `break`, or the items data['data'] extends
\* `providers` with
PageOutcome(resp) ==
    IF resp.status = "error"
    THEN [kind |-> "raise", exc |-> "RequestException"]
    ELSE LET d == DictGet(resp.body, "data", Null)
         IN  IF ~d.ok THEN [kind |-> "raise", exc |-> d.exc]
             ELSE IF ~Truthy(d.val) THEN [kind |-> "break"]
             ELSE IF d.val.t = "list" THEN [kind |-> "extend", items |-> d.val.v]
             ELSE [kind |-> "raise", exc |-> "TypeError"]

\* main()'s handlers: where an exception that reaches main() ends the run
MainCatch(exc) ==
    IF Catches("KeyboardInterrupt", exc) THEN "stopped"
    ELSE IF Catches("Exception", exc) THEN "exit_error"
    ELSE "uncaught"

\* one iteration of the while loop of get_all_providers
get_all_providers(resp) ==
    /\ c_pc = "get_all_providers"
    /\ page <= MaxPages
    /\ requests' = Append(requests, page)
    /\ responses' = Append(responses, resp)
    /\ LET o == PageOutcome(resp)
       IN  CASE o.kind = "extend" ->
                  /\ providers' = providers \o o.items
                  /\ page' = page + 1
                  /\ c_delays' = c_delays + 1
                  /\ UNCHANGED <<c_pc, gap, c_log>>
             [] o.kind = "break" ->
                  /\ gap' = "returned"
                  /\ c_pc' = "generate_report"
                  /\ UNCHANGED <<providers, page, c_delays, c_log>>
             [] o.kind = "raise" /\ Catches("RequestException", o.exc) ->
                  /\ c_log' = Append(c_log, <<"Error fetching providers page", page>>)
                  /\ gap' = "returned"
                  /\ c_pc' = "generate_report"
                  /\ UNCHANGED <<providers, page, c_delays>>
             [] OTHER ->
                  /\ gap' = "raised"
                  /\ c_pc' = MainCatch(o.exc)
                  /\ c_log' = Append(c_log, <<"Unexpected error", o.exc>>)
                  /\ UNCHANGED <<providers, page, c_delays>>
    /\ UNCHANGED <<report_data, gr, save, files, csv_attempted>>
    /\ UNCHANGED dailyVars

---------------------------------------------------------------------------
(* Full crawl: get_provider_downloads and generate_report *)

\* the dict get_provider_downloads builds from an item's id and attributes
ProviderRecord(id, a) ==
    Obj("id" :> id
        @@ "namespace" :> DictGet(a, "namespace", Null).val
        @@ "name" :> DictGet(a, "name", Null).val
        @@ "full_name" :> Str(Fmt(DictGet(a, "namespace", Null).val) \o "/"
                              \o Fmt(DictGet(a, "name", Null).val))
        @@ "downloads" :> DictGet(a, "downloads", Num(0)).val
        @@ "version" :> DictGet(a, "version", Null).val
        @@ "published_at" :> DictGet(a, "published-at", Null).val
        @@ "tier" :> DictGet(a, "tier", Null).val
        @@ "source" :> DictGet(a, "source", Null).val)

\* get_provider_downloads(provider): the value returned, or the exception
\* that leaves the function, and what it logged
crawl_get_provider_downloads(provider) ==
    LET id == Subscript(provider, "id")
        attrs == Subscript(provider, "attributes")
        body == IF ~id.ok THEN id
                ELSE IF ~attrs.ok THEN attrs
                ELSE IF ~DictGet(attrs.val, "namespace", Null).ok
                     THEN Raise("AttributeError")
                ELSE Ok(ProviderRecord(id.val, attrs.val))
        \* provider.get('id') inside the except block
        handler == DictGet(provider, "id", Null)
    IN  IF body.ok THEN [raised |-> FALSE, val |-> body.val, log |-> <<>>]
        ELSE IF ~Catches("Exception", body.exc)
             THEN [raised |-> TRUE, exc |-> body.exc, log |-> <<>>]
        ELSE IF handler.ok
             THEN [raised |-> FALSE, val |-> Null,
                   log |-> <<<<"Error processing provider", handler.val>>>>]
        ELSE [raised |-> TRUE, exc |-> handler.exc, log |-> <<>>]

\* the for loop of generate_report over `items`, report_data being `acc` so far
RECURSIVE ProcessProviders(_, _, _)
ProcessProviders(items, acc, log) ==
    IF items = <<>> THEN [raised |-> FALSE, data |-> acc, log |-> log]
    ELSE LET r == crawl_get_provider_downloads(Head(items))
         IN  IF r.raised
             THEN [raised |-> TRUE, exc |-> r.exc, data |-> acc, log |-> log]
             ELSE ProcessProviders(Tail(items),
                                   IF Truthy(r.val) THEN Append(acc, r.val) ELSE acc,
                                   log \o r.log)

\* generate_report after get_all_providers has returned
crawl_generate_report ==
    /\ c_pc = "generate_report"
    /\ LET r == ProcessProviders(providers, <<>>, <<>>)
       IN  /\ report_data' = r.data
           /\ gr' = IF r.raised THEN "raised" ELSE "returned"
           /\ c_pc' = IF r.raised THEN MainCatch(r.exc) ELSE "save_report"
           /\ c_log' = c_log \o r.log
                       \o (IF r.raised THEN <<<<"Unexpected error", r.exc>>>> ELSE <<>>)
    /\ UNCHANGED <<page, providers, requests, responses, c_delays, gap, save,
                   files, csv_attempted>>
    /\ UNCHANGED dailyVars

---------------------------------------------------------------------------
(* Full crawl: save_report *)

\* every row's `downloads` is None: the column keeps None, and the
\* f"{row['downloads']:,}" of the top-10 log raises TypeError
AllDownloadsNone(rows) ==
    \A i \in 1..Len(rows) : rows[i].v["downloads"] = Null

\* the CSV try block: the exception it raises inside the block, or "none"
CsvBlock(rows, csv_ok) ==
    IF rows = <<>> THEN [written |-> FALSE, exc |-> "KeyError"]
    ELSE IF ~csv_ok THEN [written |-> FALSE, exc |-> "OSError"]
    ELSE IF AllDownloadsNone(rows) THEN [written |-> TRUE, exc |-> "TypeError"]
    ELSE [written |-> TRUE, exc |-> "none"]

\* save_report(report_data); the file system decides mkdir_ok, json_ok, csv_ok
crawl_save_report(mkdir_ok, json_ok, csv_ok) ==
    /\ c_pc = "save_report"
    /\ IF ~mkdir_ok
       THEN \* os.makedirs is outside every try block
            /\ save' = "raised"
            /\ c_pc' = MainCatch("OSError")
            /\ c_log' = Append(c_log, <<"Unexpected error", "OSError">>)
            /\ UNCHANGED <<files, csv_attempted>>
       ELSE LET csv == CsvBlock(report_data, csv_ok)
                jsonLog == IF json_ok THEN <<>>
                           ELSE <<<<"Error saving JSON report", "OSError">>>>
                csvLog == IF csv.exc = "none" THEN <<>>
                          ELSE <<<<"Error saving CSV report", csv.exc>>>>
            IN  /\ files' = (IF json_ok THEN "json" :> report_data ELSE <<>>)
                            @@ (IF csv.written THEN "csv" :> Len(report_data) ELSE <<>>)
                /\ csv_attempted' = TRUE
                /\ c_log' = c_log \o jsonLog \o csvLog
                /\ save' = "returned"
                /\ c_pc' = "done"
    /\ UNCHANGED <<page, providers, requests, responses, c_delays, gap,
                   report_data, gr>>
    /\ UNCHANGED dailyVars

---------------------------------------------------------------------------
(* Daily monitor: the tracked providers and the registry's possible answers *)

\* self.providers, in insertion order
ProviderNames == <<"aws", "azure", "gcp", "datadog", "splunk", "databricks", "elastic">>

ProviderPath(name) ==
    CASE name = "aws" -> "hashicorp/aws"
      [] name = "azure" -> "hashicorp/azurerm"
      [] name = "gcp" -> "hashicorp/google"
      [] name = "datadog" -> "datadog/datadog"
      [] name = "splunk" -> "splunk/splunk"
      [] name = "databricks" -> "databricks/databricks"
      [] name = "elastic" -> "elastic/ec"

Detail(attrs) == Obj("data" :> Obj("attributes" :> attrs))

\* JSON bodies of the detail endpoint: a download count, and the other shapes
DetailBodies ==
    { Detail(Obj("downloads" :> Num(12345))),
      Detail(Obj("downloads" :> Num(0))),
      Detail(Obj("downloads" :> Null)),
      Detail(Obj("downloads" :> Str("many"))),
      Detail(Obj("name" :> Str("aws"))),
      Detail(Null),
      Obj("data" :> Obj(<<>>)),
      Obj("errors" :> List(<<>>)),
      List(<<>>),
      Num(1) }

DetailResponses ==
    {[status |-> "error"]} \cup {[status |-> "ok", body |-> b] : b \in DetailBodies}

\* the 00:00 that follows time t: what schedule computes for every().day.at("00:00")
NextMidnight(t) == ((t \div DayLen) + 1) * DayLen

---------------------------------------------------------------------------
(* Daily monitor: get_provider_downloads *)

\* `k in x` for a string k.  (No string is the right operand in this model.)
In(k, x) ==
    CASE x.t = "obj" -> Ok(k \in DOMAIN x.v)
      [] x.t = "list" -> Ok(\E i \in 1..Len(x.v) : x.v[i] = Str(k))
      [] x.t \in {"null", "num"} -> Raise("TypeError")

\* the try block of get_provider_downloads, for one response
FetchOutcome(resp) ==
    IF resp.status = "error" THEN Raise("RequestException")
    ELSE LET body == resp.body
             hasData == In("data", body)
         IN  IF ~hasData.ok THEN hasData
             ELSE IF ~hasData.val THEN Ok(Null)
             ELSE LET hasAttrs == In("attributes", body.v["data"])
                  IN  IF ~hasAttrs.ok THEN hasAttrs
                      ELSE IF ~hasAttrs.val THEN Ok(Null)
                      ELSE LET d == DictGet(body.v["data"].v["attributes"],
                                            "downloads", Num(0))
                           IN  IF ~d.ok THEN d
                               ELSE Ok(Obj("downloads" :> d.val))

\* FetchHandlers with a bare `except:` as the last clause
FetchHandlersBareExcept == <<"RequestException", "BaseException">>

\* the except clauses of get_provider_downloads, in order
FetchHandlers == <<"RequestException", "Exception">>

\* the first of `handlers` that catches exc, 0 when none does
FirstCatch(handlers, exc) ==
    IF \E i \in 1..Len(handlers) : Catches(handlers[i], exc)
    THEN CHOOSE i \in 1..Len(handlers) :
            /\ Catches(handlers[i], exc)
            /\ \A j \in 1..(i - 1) : ~Catches(handlers[j], exc)
    ELSE 0

\* the except clauses (innermost first, main()'s excluded) around a position
EnclosingHandlers(pc) == IF pc = "fetch" THEN FetchHandlers ELSE <<>>

\* what the handler that caught exc logs
FetchErrorRecord(h, path, exc) ==
    IF h = "RequestException" THEN <<"Error fetching data for", path, exc>>
    ELSE <<"Unexpected error for", path, exc>>

\* main()'s log record for an exception that reached it
MainRecord(exc) ==
    IF MainCatch(exc) = "stopped"
    THEN <<"Shutting down Terraform Registry Statistics Monitor">>
    ELSE <<"Unexpected error", exc>>

\* the frames of run_daily_report, generate_report and get_provider_downloads
\* are gone: their locals, and this cycle's call records with them
ResetLocals ==
    /\ idx' = 1
    /\ response' = Null
    /\ data' = Null
    /\ fetch_log' = <<>>
    /\ report' = <<>>
    /\ returned' = <<>>
    /\ fetches' = <<>>
    /\ results' = <<>>
    /\ d_delays' = 0

\* an exception no handler inside the cycle caught reaches main(): the
\* matching except clause logs and main() returns
Unwind(exc) ==
    /\ d_pc' = MainCatch(exc)
    /\ d_log' = Append(d_log, MainRecord(exc))
    /\ cycle' = "none"
    /\ ResetLocals

\* get_provider_downloads(provider_path): the GET and the try block
get_provider_downloads(resp) ==
    /\ d_pc = "fetch"
    /\ LET path == ProviderPath(ProviderNames[idx])
           o == FetchOutcome(resp)
           h == IF o.ok THEN 0 ELSE FirstCatch(FetchHandlers, o.exc)
       IN  IF ~o.ok /\ h = 0
           THEN Unwind(o.exc)
           ELSE /\ fetches' = Append(fetches, path)
                /\ response' = resp
                /\ data' = IF o.ok THEN o.val ELSE data
                /\ results' = IF o.ok THEN Append(results, o.val) ELSE results
                /\ d_pc' = IF o.ok THEN "record" ELSE "fetch_except"
                /\ fetch_log' = IF o.ok THEN <<>>
                                ELSE FetchErrorRecord(FetchHandlers[h], path, o.exc)
                /\ UNCHANGED <<cycle, idx, report, returned, d_delays, d_log>>
    /\ UNCHANGED <<now, jobs, starts, saved, interrupts>>
    /\ UNCHANGED crawlVars

\* the except block of get_provider_downloads returns None
fetch_except ==
    /\ d_pc = "fetch_except"
    /\ data' = Null
    /\ results' = Append(results, Null)
    /\ d_pc' = "record"
    /\ UNCHANGED <<now, jobs, cycle, starts, idx, response, fetch_log, report,
                   returned, fetches, d_delays, saved, interrupts, d_log>>
    /\ UNCHANGED crawlVars

---------------------------------------------------------------------------
(* Daily monitor: generate_report *)

\* calculate_monthly_downloads(data), called with a non-empty dict
calculate_monthly_downloads(d) ==
    IF ~Truthy(d) THEN Num(0) ELSE DictGet(d, "downloads", Num(0)).val

\* f"{x:,}": only a number takes the ',' format
FormatComma(x) ==
    CASE x.t = "num" -> Ok(ToString(x.v))
      [] x.t = "str" -> Raise("ValueError")
      [] OTHER -> Raise("TypeError")

\* Snapshot with a download count of 0 taken for a failed fetch
SnapshotZeroIsFailure(path, d) ==
    IF Truthy(d) /\ Truthy(calculate_monthly_downloads(d))
    THEN [provider |-> path,
          total_downloads |-> calculate_monthly_downloads(d),
          timestamp |-> now]
    ELSE [provider |-> path,
          total_downloads |-> Num(0),
          timestamp |-> now,
          error |-> "Failed to fetch data"]

\* the snapshot generate_report stores for an entry whose fetch returned d
Snapshot(path, d) ==
    IF Truthy(d)
    THEN [provider |-> path,
          total_downloads |-> calculate_monthly_downloads(d),
          timestamp |-> now]
    ELSE [provider |-> path,
          total_downloads |-> Num(0),
          timestamp |-> now,
          error |-> "Failed to fetch data"]

\* generate_report, from the return of get_provider_downloads to time.sleep(1)
record_entry ==
    /\ d_pc = "record"
    /\ LET name == ProviderNames[idx]
           snap == Snapshot(ProviderPath(name), data)
           fmt == IF Truthy(data) THEN FormatComma(snap.total_downloads) ELSE Ok("")
       IN  IF fmt.ok
           THEN /\ report' = (name :> snap) @@ report
                /\ d_pc' = "sleep"
                /\ response' = Null
                /\ fetch_log' = <<>>
                /\ UNCHANGED <<cycle, idx, data, returned, fetches, results,
                               d_delays, d_log>>
           ELSE Unwind(fmt.exc)
    /\ UNCHANGED <<now, jobs, starts, saved, interrupts>>
    /\ UNCHANGED crawlVars

\* DelaysAfter with time.sleep(1) moved into the success branch
DelaysAfterSuccessOnly(d) == IF Truthy(d) THEN d_delays + 1 ELSE d_delays

\* the delays that have elapsed once the entry whose fetch returned d is done
DelaysAfter(d) == d_delays + 1

\* time.sleep(1) ends; the loop goes on, or generate_report returns
sleep_after_entry ==
    /\ d_pc = "sleep"
    /\ d_delays' = DelaysAfter(data)
    /\ IF idx < Len(ProviderNames)
       THEN /\ idx' = idx + 1
            /\ d_pc' = "fetch"
            /\ UNCHANGED returned
       ELSE /\ returned' = <<report>>
            /\ d_pc' = "save_report"
            /\ UNCHANGED idx
    /\ UNCHANGED <<now, jobs, cycle, starts, response, data, fetch_log, report,
                   fetches, results, saved, interrupts, d_log>>
    /\ UNCHANGED crawlVars

---------------------------------------------------------------------------
(* Daily monitor: run_daily_report, save_report and the scheduler *)

\* a cycle starts: run_daily_report() is entered
StartCycle(kind, trigger) ==
    /\ cycle' = kind
    /\ starts' = Append(starts, [at |-> now, trigger |-> trigger,
                                 from |-> d_pc, during |-> cycle])
    /\ ResetLocals
    /\ d_pc' = "fetch"

\* run_daily_report with the job registered before the initial run
run_daily_report_after_registering ==
    /\ d_pc = "run_daily_report"
    /\ StartCycle("initial", <<>>)
    /\ jobs' = Append(jobs, [next_run |-> ((now \div DayLen) + 1) * DayLen,
                             last_run |-> <<>>])
    /\ UNCHANGED <<now, saved, interrupts, d_log>>
    /\ UNCHANGED crawlVars

\* main(): the initial run_daily_report() call
run_daily_report ==
    /\ d_pc = "run_daily_report"
    /\ StartCycle("initial", <<>>)
    /\ UNCHANGED <<now, jobs, saved, interrupts, d_log>>
    /\ UNCHANGED crawlVars

\* schedule's Job._schedule_next_run after a run that ended at time t
Reschedule(job, t) == [next_run |-> NextMidnight(t), last_run |-> <<t>>]

\* the rest of run_daily_report: the results are logged and save_report
\* writes the file (write_ok) or logs the IOError; the cycle has taken dt
\* polling periods.  A scheduled cycle returns into schedule's Job.run.
save_report(write_ok, dt) ==
    /\ d_pc = "save_report"
    /\ now + dt <= MaxTime
    /\ now' = now + dt
    /\ saved' = IF write_ok THEN saved + 1 ELSE saved
    /\ d_log' = IF write_ok THEN d_log
                ELSE Append(d_log, <<"Error saving report", "OSError">>)
    /\ cycle' = "none"
    /\ ResetLocals
    /\ IF cycle = "initial"
       THEN /\ d_pc' = "schedule"
            /\ UNCHANGED jobs
       ELSE /\ jobs' = [i \in 1..Len(jobs) |-> Reschedule(jobs[i], now')]
            /\ d_pc' = "idle_sleep"
    /\ UNCHANGED <<starts, interrupts>>
    /\ UNCHANGED crawlVars

\* main(): schedule.every().day.at("00:00").do(run_daily_report)
schedule_daily ==
    /\ d_pc = "schedule"
    /\ jobs' = Append(jobs, [next_run |-> NextMidnight(now), last_run |-> <<>>])
    /\ d_pc' = "run_pending"
    /\ UNCHANGED <<now, cycle, starts, idx, response, data, fetch_log, report,
                   returned, fetches, results, d_delays, saved, interrupts, d_log>>
    /\ UNCHANGED crawlVars

\* Job.should_run
ShouldRun(job) == now >= job.next_run

\* main(): schedule.run_pending()
run_pending ==
    /\ d_pc = "run_pending"
    /\ IF \E i \in 1..Len(jobs) : ShouldRun(jobs[i])
       THEN StartCycle("scheduled", <<jobs[1].next_run>>)
       ELSE /\ d_pc' = "idle_sleep"
            /\ UNCHANGED <<cycle, starts, idx, response, data, fetch_log, report,
                           returned, fetches, results, d_delays>>
    /\ UNCHANGED <<now, jobs, saved, interrupts, d_log>>
    /\ UNCHANGED crawlVars

\* main(): time.sleep(60)
idle_sleep ==
    /\ d_pc = "idle_sleep"
    /\ now < MaxTime
    /\ now' = now + 1
    /\ d_pc' = "run_pending"
    /\ UNCHANGED <<jobs, cycle, starts, idx, response, data, fetch_log, report,
                   returned, fetches, results, d_delays, saved, interrupts, d_log>>
    /\ UNCHANGED crawlVars

\* positions of main() inside its try block
Live == {"run_daily_report", "fetch", "fetch_except", "record", "sleep",
         "save_report", "schedule", "run_pending", "idle_sleep"}

\* Ctrl-C: KeyboardInterrupt is raised at the current position
interrupt ==
    /\ d_pc \in Live
    /\ interrupts' = Append(interrupts, [at |-> d_pc, during |-> cycle])
    /\ LET hs == EnclosingHandlers(d_pc)
           h == FirstCatch(hs, "KeyboardInterrupt")
       IN  IF h = 0
           THEN Unwind("KeyboardInterrupt")
           ELSE /\ d_pc' = "fetch_except"
                /\ fetch_log' = FetchErrorRecord(hs[h], ProviderPath(ProviderNames[idx]),
                                                 "KeyboardInterrupt")
                /\ UNCHANGED <<cycle, idx, response, data, report, returned,
                               fetches, results, d_delays, d_log>>
    /\ UNCHANGED <<now, jobs, starts, saved>>
    /\ UNCHANGED crawlVars

---------------------------------------------------------------------------
(* The two programs *)

\* the full crawl starts; the monitor is not running
InitCrawl ==
    /\ c_pc = "get_all_providers"
    /\ page = 1
    /\ providers = <<>>
    /\ requests = <<>>
    /\ responses = <<>>
    /\ c_delays = 0
    /\ gap = "running"
    /\ report_data = <<>>
    /\ gr = "pending"
    /\ save = "pending"
    /\ files = <<>>
    /\ csv_attempted = FALSE
    /\ c_log = <<>>
    /\ d_pc = "run_daily_report"
    /\ now = 0
    /\ jobs = <<>>
    /\ cycle = "none"
    /\ starts = <<>>
    /\ idx = 1
    /\ response = Null
    /\ data = Null
    /\ fetch_log = <<>>
    /\ report = <<>>
    /\ returned = <<>>
    /\ fetches = <<>>
    /\ results = <<>>
    /\ d_delays = 0
    /\ saved = 0
    /\ interrupts = <<>>
    /\ d_log = <<>>

\* the monitor starts, at any time of the day; the full crawl is not running
InitDaily ==
    /\ c_pc = "get_all_providers"
    /\ page = 1
    /\ providers = <<>>
    /\ requests = <<>>
    /\ responses = <<>>
    /\ c_delays = 0
    /\ gap = "running"
    /\ report_data = <<>>
    /\ gr = "pending"
    /\ save = "pending"
    /\ files = <<>>
    /\ csv_attempted = FALSE
    /\ c_log = <<>>
    /\ d_pc = "run_daily_report"
    /\ now \in 0..(DayLen - 1)
    /\ jobs = <<>>
    /\ cycle = "none"
    /\ starts = <<>>
    /\ idx = 1
    /\ response = Null
    /\ data = Null
    /\ fetch_log = <<>>
    /\ report = <<>>
    /\ returned = <<>>
    /\ fetches = <<>>
    /\ results = <<>>
    /\ d_delays = 0
    /\ saved = 0
    /\ interrupts = <<>>
    /\ d_log = <<>>

NextCrawl ==
    \/ \E resp \in Responses : get_all_providers(resp)
    \/ crawl_generate_report
    \/ \E mkdir_ok, json_ok, csv_ok \in BOOLEAN :
          crawl_save_report(mkdir_ok, json_ok, csv_ok)

NextDaily ==
    \/ run_daily_report
    \/ \E resp \in DetailResponses : get_provider_downloads(resp)
    \/ fetch_except
    \/ record_entry
    \/ sleep_after_entry
    \/ \E write_ok \in BOOLEAN, dt \in 0..MaxCycleTicks : save_report(write_ok, dt)
    \/ schedule_daily
    \/ run_pending
    \/ idle_sleep
    \/ interrupt

SpecCrawl == InitCrawl /\ [][NextCrawl]_vars
SpecDaily == InitDaily /\ [][NextDaily]_vars

---------------------------------------------------------------------------
(* Properties of the full crawl *)

\* a response whose body is an object with a `data` array
IsDataPage(resp) ==
    /\ resp.status = "ok"
    /\ resp.body.t = "obj"
    /\ "data" \in DOMAIN resp.body.v
    /\ resp.body.v["data"].t = "list"

PageItems(resp) == resp.body.v["data"].v

NonEmptyPage(resp) == IsDataPage(resp) /\ PageItems(resp) # <<>>
EmptyPage(resp) == IsDataPage(resp) /\ PageItems(resp) = <<>>

\* the items of the first n responses of h, page after page
RECURSIVE ConcatPages(_, _)
ConcatPages(h, n) ==
    IF n = 0 THEN <<>> ELSE ConcatPages(h, n - 1) \o PageItems(h[n])

\* pages 1..n non-empty, page n+1 empty
PagesThenEmpty(h) ==
    /\ Len(h) >= 1
    /\ \A i \in 1..(Len(h) - 1) : NonEmptyPage(h[i])
    /\ EmptyPage(h[Len(h)])

\* pages 1..k-1 non-empty, the request for page k failed
PagesThenFailure(h) ==
    /\ Len(h) >= 1
    /\ \A i \in 1..(Len(h) - 1) : NonEmptyPage(h[i])
    /\ h[Len(h)].status = "error"

\* C1: when pages 1..n are non-empty and page n+1 is empty, get_all_providers
\* has returned after exactly the requests for pages 1, 2, ..., n+1 in that
\* order, with exactly the items of pages 1..n in page order, and exactly n
\* inter-page delays have elapsed.
C1_PaginationEndsOnEmptyPage ==
    PagesThenEmpty(responses) =>
        /\ gap = "returned"
        /\ requests = [i \in 1..Len(responses) |-> i]
        /\ providers = ConcatPages(responses, Len(responses) - 1)
        /\ c_delays = Len(responses) - 1

\* two different non-empty pages, then the empty one
C1_Witness ==
    /\ PagesThenEmpty(responses)
    /\ Len(responses) = 3
    /\ responses[1] # responses[2]
    /\ Len(providers) >= 3
    /\ gap = "returned"

\* C2: when the request for page k fails after pages 1..k-1 succeeded,
\* get_all_providers has returned (not raised) exactly the items of pages
\* 1..k-1 in page order, page k was requested once and nothing after it, and
\* the error was logged with page number k.
C2_FailureStopsPagination ==
    PagesThenFailure(responses) =>
        /\ gap = "returned"
        /\ requests = [i \in 1..Len(responses) |-> i]
        /\ providers = ConcatPages(responses, Len(responses) - 1)
        /\ Len(c_log) >= 1
        /\ c_log[1] = <<"Error fetching providers page", Len(responses)>>

\* two pages gathered, the third request failed
C2_Witness ==
    /\ PagesThenFailure(responses)
    /\ Len(responses) = 3
    /\ Len(providers) >= 2
    /\ gap = "returned"

\* an item get_provider_downloads can build a record from
WellFormed(item) ==
    /\ item.t = "obj"
    /\ {"id", "attributes"} \subseteq DOMAIN item.v
    /\ item.v["attributes"].t = "obj"

RECURSIVE RecordsOf(_)
RecordsOf(items) ==
    IF items = <<>> THEN <<>>
    ELSE <<ProviderRecord(Head(items).v["id"], Head(items).v["attributes"])>>
         \o RecordsOf(Tail(items))

\* C3 (as claimed): whatever malformed items the crawl holds, generate_report
\* does not abort and returns the records of exactly the well-formed items,
\* in their input order.
C3_MalformedItemsAreSkipped ==
    (gap = "returned" /\ gr # "pending") =>
        /\ gr = "returned"
        /\ report_data = RecordsOf(SelectSeq(providers, WellFormed))

\* the download count the claim expects in the record of a well-formed item
ExpectedDownloads(item) ==
    LET a == item.v["attributes"].v
    IN  IF "downloads" \in DOMAIN a /\ a["downloads"] # Null
        THEN a["downloads"] ELSE Num(0)

\* C4 (as claimed): the download count of every record is never null: 0 when
\* the attributes carry no `downloads` or a null one, the response's value
\* otherwise.
C4_DownloadsNeverNull ==
    gr = "returned" =>
        LET src == SelectSeq(providers, WellFormed)
        IN  /\ Len(report_data) = Len(src)
            /\ \A i \in 1..Len(report_data) :
                  /\ report_data[i].v["downloads"] # Null
                  /\ report_data[i].v["downloads"] = ExpectedDownloads(src[i])

\* C7 (as claimed): save_report never raises to its caller, and a failed
\* JSON write does not keep the CSV write from being attempted.
C7_SaveReportNeverRaises ==
    save # "pending" => (save = "returned" /\ csv_attempted)

---------------------------------------------------------------------------
(* Properties of the daily monitor *)

AllNames == {ProviderNames[i] : i \in 1..Len(ProviderNames)}

\* a response of the shape {data: {attributes: {downloads: d}}}
HasDownloads(resp) ==
    /\ resp # Null
    /\ resp.status = "ok"
    /\ resp.body.t = "obj"
    /\ "data" \in DOMAIN resp.body.v
    /\ resp.body.v["data"].t = "obj"
    /\ "attributes" \in DOMAIN resp.body.v["data"].v
    /\ resp.body.v["data"].v["attributes"].t = "obj"
    /\ "downloads" \in DOMAIN resp.body.v["data"].v["attributes"].v

DownloadsOf(resp) == resp.body.v["data"].v["attributes"].v["downloads"]

\* the snapshot of entry i, given what get_provider_downloads returned for it
SnapshotMatches(snap, i) ==
    /\ ("error" \in DOMAIN snap) <=> (results[i] = Null)
    /\ snap.provider = ProviderPath(ProviderNames[i])
    /\ results[i] = Null =>
          /\ snap.total_downloads = Num(0)
          /\ snap.error = "Failed to fetch data"
    /\ results[i] # Null => snap.total_downloads = results[i].v["downloads"]

\* C5: a snapshot carries `error` exactly when get_provider_downloads returned
\* None for the provider: then total_downloads = 0 and error = "Failed to
\* fetch data"; on a response {data: {attributes: {downloads: d}}} the fetch
\* returns d and the snapshot has the provider path, total_downloads = d and
\* no error field.
C5_ErrorFieldIffFetchAbsent ==
    /\ (d_pc = "record" /\ HasDownloads(response)) =>
          data = Obj("downloads" :> DownloadsOf(response))
    /\ \A i \in 1..Len(ProviderNames) :
          ProviderNames[i] \in DOMAIN report =>
             /\ i <= Len(results)
             /\ SnapshotMatches(report[ProviderNames[i]], i)
    /\ returned # <<>> =>
          /\ returned[1] = report
          /\ DOMAIN report = AllNames

\* a returned report with a failed provider, one with 0 downloads and one
\* with 12345
C5_Witness ==
    /\ returned # <<>>
    /\ "error" \in DOMAIN returned[1]["aws"]
    /\ returned[1]["azure"].total_downloads = Num(0)
    /\ "error" \notin DOMAIN returned[1]["azure"]
    /\ returned[1]["gcp"].total_downloads = Num(12345)

\* C6 (as claimed): no failure of one unit of work ends the run: the full
\* crawl exits through main()'s `except Exception` only after save_report was
\* reached, and the daily monitor never does.
C6_NoFailureEndsTheRun ==
    /\ c_pc = "exit_error" => save # "pending"
    /\ d_pc # "exit_error"

CyclePositions == {"fetch", "fetch_except", "record", "sleep", "save_report"}

\* C8: a cycle is running exactly at the positions inside run_daily_report;
\* the first cycle starts from main() (unless an interrupt stops main() before
\* its first call) before any job is registered, and the
\* job is registered only once that cycle is over; every later cycle is
\* started by run_pending, with no cycle running, for a 00:00 trigger that is
\* due; no trigger starts two cycles; after a run the job is next due at the
\* first 00:00 after the run ended.
C8_OneCycleAtATime ==
    /\ cycle \in {"none", "initial", "scheduled"}
    /\ (cycle # "none") <=> (d_pc \in CyclePositions)
    /\ (d_pc # "run_daily_report" /\ interrupts = <<>>) => Len(starts) >= 1
    /\ \A i \in 1..Len(starts) :
          /\ starts[i].during = "none"
          /\ i = 1 => (starts[i].trigger = <<>> /\ starts[i].from = "run_daily_report")
          /\ i > 1 =>
                /\ starts[i].from = "run_pending"
                /\ starts[i].trigger # <<>>
                /\ starts[i].trigger[1] % DayLen = 0
                /\ starts[i].trigger[1] <= starts[i].at
          /\ \A j \in 1..Len(starts) : i # j => starts[i].trigger # starts[j].trigger
    /\ Len(jobs) <= 1
    /\ jobs = <<>> => Len(starts) <= 1
    /\ jobs # <<>> =>
          /\ Len(starts) = 1 => cycle = "none"
          /\ jobs[1].next_run % DayLen = 0
          /\ jobs[1].last_run # <<>> =>
                /\ jobs[1].last_run[1] < jobs[1].next_run
                /\ jobs[1].next_run <= jobs[1].last_run[1] + DayLen
          /\ d_pc \in {"run_pending", "idle_sleep"} =>
                \A i \in 1..Len(starts) : starts[i].trigger # <<jobs[1].next_run>>

\* the initial cycle and two scheduled ones are over, the monitor is idle
C8_Witness ==
    /\ Len(starts) = 3
    /\ cycle = "none"
    /\ d_pc = "idle_sleep"
    /\ starts[2].trigger # starts[3].trigger

\* C9: once an interrupt has arrived, wherever it arrived, main() has logged
\* the shutdown message and returned: the interrupt was not swallowed, no
\* cycle is running and no step of the monitor can follow.
C9_InterruptStops ==
    interrupts # <<>> =>
        /\ Len(interrupts) = 1
        /\ d_pc = "stopped"
        /\ cycle = "none"
        /\ d_log # <<>>
        /\ d_log[Len(d_log)] = <<"Shutting down Terraform Registry Statistics Monitor">>
        /\ ~ENABLED NextDaily

\* stopped by an interrupt that arrived inside the except block of
\* get_provider_downloads, during a scheduled cycle
C9_Witness ==
    /\ d_pc = "stopped"
    /\ interrupts = <<[at |-> "fetch_except", during |-> "scheduled"]>>

===========================================================================
